---- MODULE Spec2Model ----
(***************************************************************************)
(* A model of the FakeYou.js text-to-speech client:                        *)
(*   - the remote provider (POST /login, POST /tts/inference,              *)
(*     GET /tts/job/{token}) as the scripts and functions observe it;      *)
(*   - the command-line flows testConvertTextToSpeech / pollUntilComplete  *)
(*     (src/test.js with a bearer token, src/README.md with a session      *)
(*     cookie kept in a module-level variable);                            *)
(*   - the callable functions convertTextToSpeech / checkConversionStatus  *)
(*     (src/unnamed/part_000);                                             *)
(*   - FakeYouTTS.getAudioUrl (src/index.js).                              *)
(* Every await of the JavaScript is a point where another flow may run,    *)
(* so one action is the code between two awaits.                           *)
(***************************************************************************)
EXTENDS Integers, Sequences, FiniteSets, TLC

\* ------------------------------------------------------------- bounds
\* History counters (queries issued, consecutive errors) saturate here.
MaxCount == 4
\* uuidv4() values that can be drawn in one run (submissions made).
MaxUuid == 2
\* The caller-supplied max_attempts of the specification's pollUntilTerminal.
MaxAttempts == 3
\* The N of "after N consecutive identical errors, escalate to caller".
EscalateAfter == 3
\* Logical requests the client of the functions starts in one run.
MaxReq == 2
\* Longest legacy resourceUrl, in chunks.
MaxLen == 3
\* Most models one search returns.
MaxModels == 3
\* Largest opts.retries given to the constructor.
MaxRetries == 2

\* ------------------------------------------------------------- values
\* JavaScript null / undefined (a missing field).
JsNull == "<null>"
\* JavaScript truthiness of a string-or-null value.
Truthy(x) == x \notin {JsNull, ""}
\* a || b
OrElse(a, b) == IF Truthy(a) THEN a ELSE b

Min(a, b) == IF a < b THEN a ELSE b
\* A history counter, saturating at MaxCount.
Bump(n) == Min(n + 1, MaxCount)

\* The flows: T is src/test.js (bearer token), A and B are two runs of the
\* README's cookie flow inside one process.
TokenFlows == {"T"}
CookieFlows == {"A", "B"}
Flows == TokenFlows \cup CookieFlows
\* The flows whose polling history (counters, errors seen) is recorded.
Watched == TokenFlows

\* The hard-coded bearer token of src/test.js.
FAKEYOU_AUTH_TOKEN == "bearer_T"
\* The session cookie POST /login sets for the login issued by flow f.
CookieOf(f) == "cookie_" \o f

JobStatus == {"pending", "complete_success", "failed"}
Terminal == JobStatus \ {"pending"}
\* maybe_public_bucket_wav_audio_path: absent, empty, or a path.
PathVals == {JsNull, "", "/media/a.wav"}
\* Transport-level failures axios throws on.
ErrKinds == {"auth", "network"}

VARIABLES
  \* ---- the provider
  provJobs,       \* sequence of jobs; a job's token is its index
  uuidNext,       \* the next value uuidv4() returns
  \* ---- the scripts (src/test.js, src/README.md)
  sessionCookie,  \* README: let sessionCookie = null
  pc,             \* each flow's position
  flowJob,        \* inferenceToken of the flow
  flowKey,        \* payload.uuid_idempotency_token of the flow (0: none)
  isComplete,     \* pollUntilComplete's isComplete
  sentLog,        \* requests sent to the provider: [flow, kind, cred, key]
  nQueries,       \* history: status queries issued by the flow
  nSubmits,       \* history: submissions issued by the flow
  consecErr,      \* history: length of the current run of identical errors
  lastErr,        \* history: the error of that run
  termSeen,       \* history: a terminal status response was received
  lastStatus,     \* history: the status the last status response reported
  \* ---- the callable functions (src/unnamed/part_000)
  fnEnvToken,     \* process.env.FAKEYOU_AUTH_TOKEN
  fnCfgToken,     \* functions.config().fakeyou.auth_token
  fnPc,           \* each invocation's position
  fnOp,           \* the function invoked: convert / check
  fnData,         \* data: [text, modelName, inferenceToken]
  fnKey,          \* payload.uuid_idempotency_token (0: none drawn)
  fnResp,         \* response, as received
  fnResult,       \* what the invocation returned or threw
  fnReq,          \* history: the caller's logical request
  fnSent,         \* history: requests this invocation sent
  fnLog,          \* history: submissions sent: [caller, req, key, cred]
  reqNext,        \* history: logical requests started so far
  \* ---- FakeYouTTS.getAudioUrl (src/index.js)
  urlCalled,      \* getAudioUrl has been called
  urlIn,          \* its argument
  urlOut,         \* its result
  \* ---- FakeYouTTS.findModelByName's choice among the models found
  matchCalled,    \* the choice has been made
  matchModels,    \* models, as findModels returned them
  matchName,      \* name
  matchOut,       \* match
  \* ---- a FakeYouTTS instance (src/index.js)
  username,       \* this.username
  password,       \* this.password
  loggedIn,       \* this.loggedIn
  lastError,      \* this.lastError: the message of the error, or null
  clientSession,  \* the session this.client holds after client.login
  modelCache,     \* this._modelCache: own properties, by key
  tPc,            \* each call's position
  tOp,            \* the method called
  tArg,           \* its argument: searchTerm, modelToken or name
  tResult,        \* what the call returned or threw
  tSent,          \* history: remote requests this call issued
  tAfter,         \* history: the call began after a completed search of its term
  tLogin,         \* history: how the login this call awaited ended
  searchLog,      \* history: search terms the remote endpoint received
  loginLog,       \* history: the operations that issued a remote login
  firstDone,      \* history: per term, what the first completed search returned
  \* ---- FakeYouTTS.generateTTS (src/index.js)
  optRetries,     \* opts.retries as given to the constructor, or NotGiven
  gPc,            \* the call's position
  gModel,         \* model
  gText,          \* text
  retries,        \* let retries
  gResult,        \* what the call returned or threw
  gAttempts,      \* history: model.infer calls made
  gErr,           \* history: err.message of the last failed attempt
  gAuthAt         \* history: attempts made when authentication was first rejected

provVars == <<provJobs, uuidNext>>
flowVars == <<sessionCookie, pc, flowJob, flowKey, isComplete, sentLog, nQueries,
              nSubmits, consecErr, lastErr, termSeen,
              lastStatus>>
fnVars == <<fnEnvToken, fnCfgToken, fnPc, fnOp, fnData, fnKey, fnResp, fnResult,
            fnReq, fnSent, fnLog, reqNext>>
urlVars == <<urlCalled, urlIn, urlOut>>
matchVars == <<matchCalled, matchModels, matchName, matchOut>>
modelVars == <<username, password, loggedIn, lastError, clientSession,
               modelCache, tPc, tOp, tArg, tResult, tSent, tAfter, tLogin,
               searchLog, loginLog, firstDone>>
genVars == <<optRetries, gPc, gModel, gText, retries, gResult, gAttempts, gErr,
             gAuthAt>>
ttsVars == <<matchVars, modelVars, genVars>>
nonMatchVars == <<modelVars, genVars>>
nonModelVars == <<matchVars, genVars>>
nonGenVars == <<matchVars, modelVars>>
\* What each component leaves alone.
clientVars == <<flowVars, fnVars, urlVars, ttsVars>>
nonFlowVars == <<fnVars, urlVars, ttsVars>>
nonFnVars == <<flowVars, urlVars, ttsVars>>
nonUrlVars == <<flowVars, fnVars, ttsVars>>
nonTtsVars == <<flowVars, fnVars, urlVars>>

\* ------------------------------------------------------------- provider
\* The job holding idempotency key k, 0 when there is none.
JobOfKeyIn(jobs, k) ==
  IF \E j \in 1..Len(jobs) : jobs[j].key = k
  THEN CHOOSE j \in 1..Len(jobs) : jobs[j].key = k
  ELSE 0
JobOfKey(k) == JobOfKeyIn(provJobs, k)

\* inference_job_token of job j.
TokenOf(j) == "job_" \o ToString(j)
\* The job a token names, 0 when the provider knows no such job.
JobOfToken(t) ==
  IF \E j \in 1..Len(provJobs) : TokenOf(j) = t
  THEN CHOOSE j \in 1..Len(provJobs) : TokenOf(j) = t
  ELSE 0

\* POST /tts/inference accepted: the provider deduplicates by idempotency key.
\* req is history: the logical request the job was first created for.
ProvAccept(k, r) ==
  IF JobOfKey(k) # 0 THEN provJobs
  ELSE Append(provJobs, [key |-> k, req |-> r, status |-> "pending", path |-> JsNull])

\* The provider finishes a job; a terminal status never changes again.
ProviderStep(j) ==
  /\ j \in 1..Len(provJobs)
  /\ provJobs[j].status = "pending"
  /\ \E s \in Terminal, p \in PathVals :
       /\ (s = "failed" => p = JsNull)
       /\ provJobs' = [provJobs EXCEPT ![j] = [@ EXCEPT !.status = s, !.path = p]]
  /\ UNCHANGED uuidNext

\* A response as the client sees it: axios throws (kind "error") or resolves
\* with response.data (kind "data"); "none" before any response.
Resp(kind, err, success, token, message, status, path) ==
  [kind |-> kind, err |-> err, success |-> success, token |-> token,
   message |-> message, status |-> status, path |-> path]
NoResp == Resp("none", JsNull, FALSE, JsNull, JsNull, JsNull, JsNull)
ErrResp(k) == Resp("error", k, FALSE, JsNull, JsNull, JsNull, JsNull)
\* {success: false, ...} with the provider's explanation.
ProviderMessages == {"rate limited", "model not found"}
FailResp(m) == Resp("data", JsNull, FALSE, JsNull, m, JsNull, JsNull)
\* {success: true, inference_job_token}
AcceptResp(j) == Resp("data", JsNull, TRUE, TokenOf(j), JsNull, JsNull, JsNull)
\* {success: true, state: {status, maybe_public_bucket_wav_audio_path}}
StateResp(j) == Resp("data", JsNull, TRUE, JsNull, JsNull,
                     provJobs[j].status, provJobs[j].path)
\* What GET /tts/job/{t} can answer: a transport error, an application-level
\* failure, or the job's state.
JobResponses(t) ==
  {ErrResp(k) : k \in ErrKinds} \cup {FailResp(m) : m \in ProviderMessages}
    \cup (IF JobOfToken(t) # 0 THEN {StateResp(JobOfToken(t))}
          ELSE {ErrResp("notfound")})

\* ------------------------------------------------------------- scripts
UsesCookie(f) == f \in CookieFlows
\* The credential a request of flow f carries, read when the request is built.
Cred(f, cookie) == IF UsesCookie(f) THEN cookie ELSE FAKEYOU_AUTH_TOKEN

\* pollUntilComplete's decision on a status response: TRUE when the loop ends.
PollDone(resp) ==
  /\ resp.kind = "data"
  /\ \/ resp.success /\ resp.status = "complete_success" /\ Truthy(resp.path)
     \/ resp.success /\ resp.status = "failed"

\* axios.post(FAKEYOU_TTS_URL, payload, ...) with a fresh uuidv4().
SendSubmit(f, cookie) ==
  /\ uuidNext <= MaxUuid
  /\ uuidNext' = uuidNext + 1
  /\ flowKey' = [flowKey EXCEPT ![f] = uuidNext]
  /\ sentLog' = sentLog \cup {[flow |-> f, kind |-> "submit",
                               cred |-> Cred(f, cookie), key |-> uuidNext]}
  /\ nSubmits' = [nSubmits EXCEPT ![f] = Bump(@)]
  /\ pc' = [pc EXCEPT ![f] = "awaitPost"]

\* axios.get(`${FAKEYOU_JOB_URL}/${inferenceToken}`, ...) at the loop's head.
SendQuery(f) ==
  /\ sentLog' = sentLog \cup {[flow |-> f, kind |-> "status",
                               cred |-> Cred(f, sessionCookie), key |-> 0]}
  /\ nQueries' = [nQueries EXCEPT ![f] = IF f \in Watched THEN Bump(@) ELSE @]
  /\ pc' = [pc EXCEPT ![f] = "awaitGet"]

\* testConvertTextToSpeech up to its first await.
FlowStart(f) ==
  /\ pc[f] = "start"
  /\ IF UsesCookie(f) /\ ~Truthy(sessionCookie)
     THEN /\ pc' = [pc EXCEPT ![f] = "awaitLogin"]
          /\ sentLog' = sentLog \cup {[flow |-> f, kind |-> "login",
                                       cred |-> JsNull, key |-> 0]}
          /\ UNCHANGED <<uuidNext, flowKey, nSubmits>>
     ELSE SendSubmit(f, sessionCookie)
  /\ UNCHANGED <<provJobs, sessionCookie, flowJob, isComplete, nQueries,
                 consecErr, lastErr, termSeen, lastStatus, nonFlowVars>>

\* login() resumes with the provider's answer, then testConvertTextToSpeech
\* goes on: with a cookie it submits, without one it gives up.
LoginRecv(f) ==
  /\ pc[f] = "awaitLogin"
  /\ \E outcome \in {"cookie", "nocookie", "error"} :
       IF outcome = "cookie"
       THEN /\ sessionCookie' = CookieOf(f)
            /\ SendSubmit(f, CookieOf(f))
       ELSE /\ pc' = [pc EXCEPT ![f] = "done"]
            /\ UNCHANGED <<sessionCookie, uuidNext, flowKey, sentLog, nSubmits>>
  /\ UNCHANGED <<provJobs, flowJob, isComplete, nQueries, consecErr, lastErr,
                 termSeen, lastStatus, nonFlowVars>>

\* The submission's answer arrives. Accepted: pollUntilComplete starts and
\* issues its first query. Refused (success false) or failed: the flow ends.
\* "lost": the provider created the job but the response never arrived.
SubmitRecv(f) ==
  /\ pc[f] = "awaitPost"
  /\ \E outcome \in {"accepted", "refused", "error", "lost"} :
       /\ provJobs' = IF outcome \in {"accepted", "lost"}
                      THEN ProvAccept(flowKey[f], f)
                      ELSE provJobs
       /\ IF outcome = "accepted"
          THEN /\ flowJob' = [flowJob EXCEPT ![f] =
                                TokenOf(JobOfKeyIn(provJobs', flowKey[f]))]
               /\ SendQuery(f)
          ELSE /\ pc' = [pc EXCEPT ![f] = "done"]
               /\ UNCHANGED <<flowJob, sentLog, nQueries>>
  /\ UNCHANGED <<uuidNext, sessionCookie, flowKey, isComplete, nSubmits,
                 consecErr, lastErr, termSeen, lastStatus, nonFlowVars>>

\* A status response arrives inside pollUntilComplete: the loop ends
\* (isComplete) or the poller sleeps pollInterval; a thrown error is logged
\* and the poller sleeps as well.
GetRecv(f) ==
  /\ pc[f] = "awaitGet"
  /\ \E resp \in JobResponses(flowJob[f]) :
       /\ isComplete' = [isComplete EXCEPT ![f] = PollDone(resp)]
       /\ pc' = [pc EXCEPT ![f] = IF PollDone(resp) THEN "done" ELSE "sleep"]
       /\ IF f \in Watched
          THEN /\ lastStatus' = [lastStatus EXCEPT ![f] =
                    IF resp.kind = "data" /\ resp.success THEN resp.status
                    ELSE JsNull]
               /\ termSeen' = [termSeen EXCEPT ![f] =
                    @ \/ (resp.kind = "data" /\ resp.success
                            /\ resp.status \in Terminal)]
               /\ lastErr' = [lastErr EXCEPT ![f] = resp.err]
               /\ consecErr' = [consecErr EXCEPT ![f] =
                    IF resp.kind # "error" THEN 0
                    ELSE IF resp.err = lastErr[f] THEN Bump(@) ELSE 1]
          ELSE UNCHANGED <<termSeen, lastStatus, lastErr, consecErr>>
  /\ UNCHANGED <<provJobs, uuidNext, sessionCookie, flowJob, flowKey, sentLog,
                 nQueries, nSubmits, nonFlowVars>>

\* The sleep ends: while (!isComplete) issues the next status query.
Wake(f) ==
  /\ pc[f] = "sleep"
  /\ ~isComplete[f]
  /\ SendQuery(f)
  /\ UNCHANGED <<provJobs, uuidNext, sessionCookie, flowJob, flowKey, isComplete,
                 nSubmits, consecErr, lastErr, termSeen, lastStatus,
                 nonFlowVars>>

\* ------------------------------------------------------------- functions
\* The client invoking the callable functions.
FnCallers == {"A"}
Texts == {JsNull, "", "hello"}
Models == {JsNull, "", "weight_1"}
JobTokens == {JsNull, ""} \cup {TokenOf(j) : j \in 1..MaxUuid}
NoData == [text |-> JsNull, modelName |-> JsNull, inferenceToken |-> JsNull]
ReqName(n) == "req_" \o ToString(n)

\* error.message of what axios throws.
AxiosMessage(k) ==
  CASE k = "auth" -> "Request failed with status code 401"
    [] k = "notfound" -> "Request failed with status code 404"
    [] OTHER -> "Network Error"

\* What an invocation hands back: a value (kind "ok") or a thrown HttpsError.
Result(kind, code, message, token, status, audioUrl) ==
  [kind |-> kind, code |-> code, message |-> message, inferenceToken |-> token,
   status |-> status, audioUrl |-> audioUrl]
NoResult == Result("none", JsNull, JsNull, JsNull, JsNull, JsNull)
\* new functions.https.HttpsError(code, message)
HttpsError(code, message) == Result("error", code, message, JsNull, JsNull, JsNull)
\* catch (error) { throw new HttpsError("internal", error.message || "Unknown error") }
Caught(error) == HttpsError("internal", OrElse(error.message, "Unknown error"))

\* process.env.FAKEYOU_AUTH_TOKEN || functions.config().fakeyou.auth_token
AuthToken == OrElse(fnEnvToken, fnCfgToken)

\* convertTextToSpeech before its request: the thrown error, or "none".
ConvertGuard(data) ==
  IF ~Truthy(data.text) \/ ~Truthy(data.modelName)
  THEN Caught(HttpsError("invalid-argument", "Text and model name are required"))
  ELSE IF ~Truthy(AuthToken)
  THEN Caught(HttpsError("internal", "FakeYou authentication token not configured"))
  ELSE NoResult

\* ConvertResult reading a field the provider does not send.
ConvertResultNoToken(resp) ==
  IF resp.kind = "error" THEN Caught([message |-> AxiosMessage(resp.err)])
  ELSE IF resp.success
  THEN Result("ok", JsNull, JsNull, JsNull, "processing", JsNull)
  ELSE Caught(HttpsError("internal", "Failed to initiate text-to-speech conversion"))

\* convertTextToSpeech on the provider's answer.
ConvertResult(resp) ==
  IF resp.kind = "error" THEN Caught([message |-> AxiosMessage(resp.err)])
  ELSE IF resp.success
  THEN Result("ok", JsNull, JsNull, resp.token, "processing", JsNull)
  ELSE Caught(HttpsError("internal", "Failed to initiate text-to-speech conversion"))

\* CheckGuard without the test of the auth token.
CheckGuardNoToken(data) ==
  IF ~Truthy(data.inferenceToken)
  THEN Caught(HttpsError("invalid-argument", "Inference token is required"))
  ELSE NoResult

\* checkConversionStatus before its request: the thrown error, or "none".
CheckGuard(data) ==
  IF ~Truthy(data.inferenceToken)
  THEN Caught(HttpsError("invalid-argument", "Inference token is required"))
  ELSE IF ~Truthy(AuthToken)
  THEN Caught(HttpsError("internal", "FakeYou authentication token not configured"))
  ELSE NoResult

\* CheckResult without the "|| null" on the audio path.
CheckResultRawPath(resp) ==
  IF resp.kind = "error" THEN Caught([message |-> AxiosMessage(resp.err)])
  ELSE IF resp.success
  THEN Result("ok", JsNull, JsNull, JsNull, resp.status, resp.path)
  ELSE Caught(HttpsError("internal", "Failed to check conversion status"))

\* checkConversionStatus on the provider's answer.
CheckResult(resp) ==
  IF resp.kind = "error" THEN Caught([message |-> AxiosMessage(resp.err)])
  ELSE IF resp.success
  THEN Result("ok", JsNull, JsNull, JsNull, resp.status, OrElse(resp.path, JsNull))
  ELSE Caught(HttpsError("internal", "Failed to check conversion status"))

\* One invocation of convertTextToSpeech for logical request r, up to its
\* await: it throws, or draws a uuid and posts the payload.
ConvertBegin(c, data, r) ==
  /\ fnOp' = [fnOp EXCEPT ![c] = "convert"]
  /\ fnData' = [fnData EXCEPT ![c] = data]
  /\ fnReq' = [fnReq EXCEPT ![c] = r]
  /\ fnResp' = [fnResp EXCEPT ![c] = NoResp]
  /\ IF ConvertGuard(data).kind = "error"
     THEN /\ fnResult' = [fnResult EXCEPT ![c] = ConvertGuard(data)]
          /\ fnPc' = [fnPc EXCEPT ![c] = "returned"]
          /\ fnKey' = [fnKey EXCEPT ![c] = 0]
          /\ fnSent' = [fnSent EXCEPT ![c] = [submits |-> 0, queries |-> 0]]
          /\ UNCHANGED <<uuidNext, fnLog>>
     ELSE /\ uuidNext <= MaxUuid
          /\ uuidNext' = uuidNext + 1
          /\ fnKey' = [fnKey EXCEPT ![c] = uuidNext]
          /\ fnLog' = fnLog \cup {[caller |-> c, req |-> r, key |-> uuidNext,
                                   cred |-> AuthToken]}
          /\ fnSent' = [fnSent EXCEPT ![c] = [submits |-> 1, queries |-> 0]]
          /\ fnResult' = [fnResult EXCEPT ![c] = NoResult]
          /\ fnPc' = [fnPc EXCEPT ![c] = "awaitPost"]
  /\ UNCHANGED <<provJobs, fnEnvToken, fnCfgToken, nonFnVars>>

\* A client starts a new logical request.
CallConvert(c) ==
  /\ fnPc[c] \in {"idle", "returned"}
  /\ reqNext <= MaxReq
  /\ reqNext' = reqNext + 1
  /\ \E t \in Texts, m \in Models :
       ConvertBegin(c, [text |-> t, modelName |-> m, inferenceToken |-> JsNull],
                    ReqName(reqNext))

\* A client whose submission failed submits the same logical request again.
RetryConvert(c) ==
  /\ fnPc[c] = "returned"
  /\ fnOp[c] = "convert"
  /\ fnResult[c].kind = "error"
  /\ ConvertBegin(c, fnData[c], fnReq[c])
  /\ UNCHANGED reqNext

\* The provider's answer to the submission reaches convertTextToSpeech.
\* "lost": the provider created the job but the response never arrived.
ConvertRecv(c) ==
  /\ fnPc[c] = "awaitPost"
  /\ \E outcome \in {"accepted", "lost"} \cup ErrKinds \cup ProviderMessages :
       /\ provJobs' = IF outcome \in {"accepted", "lost"}
                      THEN ProvAccept(fnKey[c], fnReq[c])
                      ELSE provJobs
       /\ LET resp == CASE outcome = "accepted" ->
                             AcceptResp(JobOfKeyIn(provJobs', fnKey[c]))
                        [] outcome = "lost" -> ErrResp("network")
                        [] outcome \in ErrKinds -> ErrResp(outcome)
                        [] OTHER -> FailResp(outcome)
          IN /\ fnResp' = [fnResp EXCEPT ![c] = resp]
             /\ fnResult' = [fnResult EXCEPT ![c] = ConvertResult(resp)]
  /\ fnPc' = [fnPc EXCEPT ![c] = "returned"]
  /\ UNCHANGED <<uuidNext, fnEnvToken, fnCfgToken, fnOp, fnData, fnKey, fnReq,
                 fnSent, fnLog, reqNext, nonFnVars>>

\* One invocation of checkConversionStatus, up to its await.
CallCheck(c) ==
  /\ fnPc[c] \in {"idle", "returned"}
  /\ \E t \in JobTokens :
       LET data == [text |-> JsNull, modelName |-> JsNull, inferenceToken |-> t] IN
       /\ fnData' = [fnData EXCEPT ![c] = data]
       /\ IF CheckGuard(data).kind = "error"
          THEN /\ fnResult' = [fnResult EXCEPT ![c] = CheckGuard(data)]
               /\ fnPc' = [fnPc EXCEPT ![c] = "returned"]
               /\ fnSent' = [fnSent EXCEPT ![c] = [submits |-> 0, queries |-> 0]]
          ELSE /\ fnResult' = [fnResult EXCEPT ![c] = NoResult]
               /\ fnPc' = [fnPc EXCEPT ![c] = "awaitGet"]
               /\ fnSent' = [fnSent EXCEPT ![c] = [submits |-> 0, queries |-> 1]]
  /\ fnOp' = [fnOp EXCEPT ![c] = "check"]
  /\ fnResp' = [fnResp EXCEPT ![c] = NoResp]
  /\ fnKey' = [fnKey EXCEPT ![c] = 0]
  /\ UNCHANGED <<provJobs, uuidNext, fnEnvToken, fnCfgToken, fnReq, fnLog,
                 reqNext, nonFnVars>>

\* The provider's answer to the status query reaches checkConversionStatus.
CheckRecv(c) ==
  /\ fnPc[c] = "awaitGet"
  /\ \E resp \in JobResponses(fnData[c].inferenceToken) :
       /\ fnResp' = [fnResp EXCEPT ![c] = resp]
       /\ fnResult' = [fnResult EXCEPT ![c] = CheckResult(resp)]
  /\ fnPc' = [fnPc EXCEPT ![c] = "returned"]
  /\ UNCHANGED <<provJobs, uuidNext, fnEnvToken, fnCfgToken, fnOp, fnData, fnKey,
                 fnReq, fnSent, fnLog, reqNext, nonFnVars>>

\* ------------------------------------------------------------- audio URL
\* A URL or path is a sequence of chunks; no chunk below contains another, so
\* a substring test is a test on chunks.
STORAGE == "https://storage.googleapis.com"
Chunks == {STORAGE, "/vocodes-public", "/media/", "a", ".wav"}
\* A missing field, or a null result.
Absent == <<JsNull>>
TruthyS(x) == x # Absent /\ x # <<>>

RECURSIVE SeqsOfLen(_)
SeqsOfLen(n) ==
  IF n = 0 THEN {<<>>}
  ELSE {Append(x, ch) : x \in SeqsOfLen(n - 1), ch \in Chunks}
SeqsUpTo(n) == UNION {SeqsOfLen(k) : k \in 0..n}

\* const CDN_URL = "https://cdn-2.fakeyou.com"
CDN_URL == <<"https://cdn-2.fakeyou.com">>

\* publicBucketWavAudioPath as the provider sets it.
PathInputs == {Absent, <<>>, <<"/media/", "a", ".wav">>, <<"/media/", ".wav">>}
UrlInputs == {Absent} \cup SeqsUpTo(MaxLen)
NoInference == [isNull |-> TRUE, publicBucketWavAudioPath |-> Absent,
                resourceUrl |-> Absent]
Inferences ==
  {NoInference} \cup
  {[isNull |-> FALSE, publicBucketWavAudioPath |-> p, resourceUrl |-> u] :
     p \in PathInputs, u \in UrlInputs}

\* url.includes('storage.googleapis.com')
IncludesStorage(url) == \E i \in 1..Len(url) : url[i] = STORAGE

\* url.match(/\/media\/.*\.wav$/): where the leftmost match starts, 0 when
\* there is none. The match runs to the end of the string.
MediaMatch(url) ==
  LET starts == {i \in 1..Len(url) :
                   url[i] = "/media/" /\ i < Len(url) /\ url[Len(url)] = ".wav"}
  IN IF starts = {} THEN 0 ELSE CHOOSE i \in starts : \A k \in starts : i <= k

\* getAudioUrl with the two fields consulted in the opposite order.
getAudioUrlLegacyFirst(inference) ==
  IF inference.isNull THEN Absent
  ELSE IF TruthyS(inference.resourceUrl)
  THEN IF IncludesStorage(inference.resourceUrl)
          /\ MediaMatch(inference.resourceUrl) # 0
       THEN CDN_URL \o SubSeq(inference.resourceUrl,
                              MediaMatch(inference.resourceUrl),
                              Len(inference.resourceUrl))
       ELSE inference.resourceUrl
  ELSE IF TruthyS(inference.publicBucketWavAudioPath)
  THEN CDN_URL \o inference.publicBucketWavAudioPath
  ELSE Absent

\* FakeYouTTS.getAudioUrl(inference)
getAudioUrl(inference) ==
  IF inference.isNull THEN Absent
  ELSE IF TruthyS(inference.publicBucketWavAudioPath)
  THEN CDN_URL \o inference.publicBucketWavAudioPath
  ELSE IF TruthyS(inference.resourceUrl)
  THEN IF IncludesStorage(inference.resourceUrl)
          /\ MediaMatch(inference.resourceUrl) # 0
       THEN CDN_URL \o SubSeq(inference.resourceUrl,
                              MediaMatch(inference.resourceUrl),
                              Len(inference.resourceUrl))
       ELSE inference.resourceUrl
  ELSE Absent

\* The caller applies getAudioUrl to the inference result it holds.
GetAudioUrlCall ==
  /\ ~urlCalled
  /\ urlOut' = getAudioUrl(urlIn)
  /\ urlCalled' = TRUE
  /\ UNCHANGED <<urlIn, provVars, nonUrlVars>>

\* ------------------------------------------------------------- voice models
\* Text as a sequence of chunks. The chunks of a title or a name:
\* toLowerCase maps each to its lower-case form.
LowerChunk(ch) ==
  CASE ch = "Mario" -> "mario"
    [] ch = "MARIO" -> "mario"
    [] ch = "Super " -> "super "
    [] ch = " Bros" -> " bros"
    [] ch = "Luigi" -> "luigi"
    [] OTHER -> ch
\* s.toLowerCase()
toLowerCase(s) == [i \in 1..Len(s) |-> LowerChunk(s[i])]
\* s.includes(t)
includes(s, t) ==
  \E i \in 0..(Len(s) - Len(t)) : SubSeq(s, i + 1, i + Len(t)) = t

\* A voice model: its model token and its title (a model may have none).
VoiceModel(token, title) == [token |-> token, title |-> title]
\* null, where a model is expected.
NullModel == VoiceModel(Absent, Absent)
ModelPool ==
  {VoiceModel(<<"weight_1">>, <<"Mario">>),
   VoiceModel(<<"weight_2">>, <<"Luigi">>),
   VoiceModel(<<"weight_3">>, <<"Super ", "Mario", " Bros">>),
   VoiceModel(<<"weight_4">>, Absent)}
Names == {<<>>, <<"mario">>, <<"MARIO">>, <<"Luigi">>, <<"Peach">>}

RECURSIVE ModelLists(_)
ModelLists(n) ==
  IF n = 0 THEN {<<>>}
  ELSE ModelLists(n - 1)
         \cup {Append(l, m) : l \in {x \in ModelLists(n - 1) : Len(x) = n - 1},
                              m \in ModelPool}

\* models.find: the index of the first model among those satisfying the
\* test, 0 when none does.
FindIndex(hits) ==
  IF hits = {} THEN 0 ELSE CHOOSE i \in hits : \A k \in hits : i <= k

\* m.title && m.title.toLowerCase() === nameLower
TitleIs(m, nameLower) ==
  TruthyS(m.title) /\ toLowerCase(m.title) = nameLower
\* m.title && m.title.toLowerCase().includes(nameLower)
TitleHas(m, nameLower) ==
  TruthyS(m.title) /\ includes(toLowerCase(m.title), nameLower)

\* The choice with the substring test made before the exact one.
BestMatchPartialFirst(models, name) ==
  LET nameLower == toLowerCase(name)
      exact ==
        FindIndex({i \in 1..Len(models) : TitleIs(models[i], nameLower)})
      partial ==
        FindIndex({i \in 1..Len(models) : TitleHas(models[i], nameLower)})
  IN IF Len(models) = 0 THEN NullModel
     ELSE IF partial # 0 THEN models[partial]
     ELSE IF exact # 0 THEN models[exact]
     ELSE models[1]

\* findModelByName, from the models found to the return: exact match, then
\* partial match, then the first result.
BestMatch(models, name) ==
  LET nameLower == toLowerCase(name)
      exact ==
        FindIndex({i \in 1..Len(models) : TitleIs(models[i], nameLower)})
      partial ==
        FindIndex({i \in 1..Len(models) : TitleHas(models[i], nameLower)})
  IN IF Len(models) = 0 THEN NullModel
     ELSE IF exact # 0 THEN models[exact]
     ELSE IF partial # 0 THEN models[partial]
     ELSE models[1]

\* findModelByName has its models and chooses among them.
FindModelByNameChoose ==
  /\ ~matchCalled
  /\ matchOut' = BestMatch(matchModels, matchName)
  /\ matchCalled' = TRUE
  /\ UNCHANGED <<matchModels, matchName, provVars, nonTtsVars, nonMatchVars>>
\* ------------------------------------------------------------- FakeYouTTS
\* Calls of the instance's methods in flight at once, and the login the
\* constructor starts without awaiting it.
TtsCallers == {"p", "q"}
Slots == TtsCallers \cup {"ctor"}

\* A JavaScript value a method returns, throws or caches: nothing
\* (undefined), null, an array of models, one model, a property inherited
\* from Object.prototype, true, or an Error with its message.
Val(kind, list, model, message) ==
  [kind |-> kind, list |-> list, model |-> model, message |-> message]
Undefined == Val("none", <<>>, NullModel, JsNull)
NullVal == Val("null", <<>>, NullModel, JsNull)
ListVal(l) == Val("list", l, NullModel, JsNull)
ModelVal(m) == Val("model", <<>>, m, JsNull)
ProtoVal == Val("proto", <<>>, NullModel, JsNull)
TrueVal == Val("true", <<>>, NullModel, JsNull)
ErrorVal(message) == Val("error", <<>>, NullModel, message)
\* if (v)
TruthyV(v) == v.kind \notin {"none", "null"}

\* Search terms given to findModels: missing, empty, blank, and a word.
Terms == {Absent, <<>>, <<" ">>, <<"a">>}
\* Names given to findModelByName through the instance.
NameArgs == {<<" ">>, <<"a">>}
\* Model tokens given to getModel: one of the catalogue, one spelt like a
\* search key, and the name of a property every object inherits.
TokenArgs == {<<"weight_1">>, <<"search_", "a">>, <<"constructor">>}
ProtoKeys == {<<"constructor">>}
\* The terms two callers search for at once.
RaceTerms == {<<>>, <<"a">>}

\* `${searchTerm}`
TermText(t) == IF t = Absent THEN <<"undefined">> ELSE t
\* const cacheKey = `search_${searchTerm}`
CacheKey(t) == <<"search_">> \o TermText(t)
CacheKeys == {CacheKey(t) : t \in Terms} \cup TokenArgs \cup
             {m.token : m \in ModelPool}
\* this._modelCache[key]: an own property, else one inherited from
\* Object.prototype, else undefined.
CacheGet(cache, key) ==
  IF cache[key].kind # "none" THEN cache[key]
  ELSE IF key \in ProtoKeys THEN ProtoVal
  ELSE Undefined

\* s.trim()
trim(s) ==
  LET inked == {i \in 1..Len(s) : s[i] # " "}
  IN IF inked = {} THEN <<>>
     ELSE SubSeq(s, CHOOSE i \in inked : \A k \in inked : i <= k,
                    CHOOSE i \in inked : \A k \in inked : i >= k)
\* The term sent as it was given unless it is missing or empty.
SearchTermNoTrim(t) == IF ~TruthyS(t) THEN <<"a">> ELSE t
\* if (!searchTerm || searchTerm.trim() === '') searchTerm = 'a'
SearchTerm(t) == IF ~TruthyS(t) \/ trim(t) = <<>> THEN <<"a">> ELSE t

\* What client.fetchTtsModels answers: a map of models, nothing, or an error.
SearchLists ==
  {<<>>,
   <<VoiceModel(<<"weight_2">>, <<"Luigi">>),
     VoiceModel(<<"weight_1">>, <<"Mario">>)>>}
SearchOutcomes ==
  {[kind |-> "ok", list |-> l] : l \in SearchLists}
    \cup {[kind |-> "null", list |-> <<>>], [kind |-> "error", list |-> <<>>]}
\* How client.login ends: accepted, credentials rejected, or a response
\* without the session header.
LoginOutcomes == {"ok", "rejected", "no_session"}
\* Credentials given to login(username, password): none, or a pair.
LoginArgs == {[username |-> JsNull, password |-> JsNull],
              [username |-> "user2", password |-> "pass2"]}
NoSent == [fetches |-> 0, logins |-> 0]

\* findModels caching the empty array it returns for a failed lookup.
FindModelsEndCachesFailure(term, o) ==
  IF o.kind = "ok"
  THEN [cache |-> [modelCache EXCEPT ![CacheKey(term)] = ListVal(o.list)],
        models |-> ListVal(o.list)]
  ELSE [cache |-> [modelCache EXCEPT ![CacheKey(term)] = ListVal(<<>>)],
        models |-> ListVal(<<>>)]

\* findModels, from the response to its return: the models are cached under
\* the key computed from the term as given; a missing map or an error gives
\* the empty array and caches nothing.
FindModelsEnd(term, o) ==
  IF o.kind = "ok"
  THEN [cache |-> [modelCache EXCEPT ![CacheKey(term)] = ListVal(o.list)],
        models |-> ListVal(o.list)]
  ELSE [cache |-> modelCache, models |-> ListVal(<<>>)]

\* getModel, from the models of the broad search to its return. Anything
\* that is not an array makes models.find throw, and the catch returns null.
GetModelEnd(cache, v, token) ==
  LET i == IF v.kind = "list"
           THEN FindIndex({k \in 1..Len(v.list) : v.list[k].token = token})
           ELSE 0
  IN IF i # 0
     THEN [cache |-> [cache EXCEPT ![token] = ModelVal(v.list[i])],
           result |-> ModelVal(v.list[i])]
     ELSE [cache |-> cache, result |-> NullVal]

\* findModelByName, from the models found to its return. With no name,
\* name.toLowerCase() throws and the catch returns null.
FindModelByNameEnd(cache, v, name) ==
  [cache |-> cache,
   result |-> IF v.kind # "list" \/ Len(v.list) = 0 \/ name = Absent
              THEN NullVal
              ELSE ModelVal(BestMatch(v.list, name))]

\* The rest of a method once its findModels call has returned v.
Finish(op, arg, cache, v) ==
  CASE op = "getModel" -> GetModelEnd(cache, v, arg)
    [] op = "findModelByName" -> FindModelByNameEnd(cache, v, arg)
    [] OTHER -> [cache |-> cache, result |-> v]

\* The term a method searches for: getModel makes the broad search.
TermOf(op, arg) == IF op = "getModel" THEN <<>> ELSE arg

\* findModels up to its await: a cached value is returned at once and the
\* method goes on with it; otherwise the remote search is requested.
StartSearch(c, op, arg, sent) ==
  LET term == TermOf(op, arg)
      hit == CacheGet(modelCache, CacheKey(term))
      e == Finish(op, arg, modelCache, hit)
  IN IF TruthyV(hit)
     THEN /\ modelCache' = e.cache
          /\ tResult' = [tResult EXCEPT ![c] = e.result]
          /\ tPc' = [tPc EXCEPT ![c] = "returned"]
          /\ tSent' = [tSent EXCEPT ![c] = sent]
          /\ UNCHANGED searchLog
     ELSE /\ tPc' = [tPc EXCEPT ![c] = "awaitFetch"]
          /\ searchLog' = searchLog \cup {SearchTerm(term)}
          /\ tSent' = [tSent EXCEPT ![c] = [sent EXCEPT !.fetches = 1]]
          /\ tResult' = [tResult EXCEPT ![c] = Undefined]
          /\ UNCHANGED modelCache

\* findModels logging in before it searches.
CallFindModelsLoggingIn(c, term) ==
  /\ tPc[c] \in {"idle", "returned"}
  /\ tOp' = [tOp EXCEPT ![c] = "findModels"]
  /\ tArg' = [tArg EXCEPT ![c] = term]
  /\ tAfter' = [tAfter EXCEPT ![c] = firstDone[term].kind # "none"]
  /\ tLogin' = [tLogin EXCEPT ![c] = "none"]
  /\ tPc' = [tPc EXCEPT ![c] = "awaitLogin"]
  /\ loginLog' = loginLog \cup {"findModels"}
  /\ tSent' = [tSent EXCEPT ![c] = [fetches |-> 0, logins |-> 1]]
  /\ tResult' = [tResult EXCEPT ![c] = Undefined]
  /\ UNCHANGED <<username, password, loggedIn, lastError, clientSession,
                 modelCache, searchLog, firstDone>>
  /\ UNCHANGED <<provVars, nonTtsVars, nonModelVars>>

\* findModels(searchTerm)
CallFindModels(c, term) ==
  /\ tPc[c] \in {"idle", "returned"}
  /\ tOp' = [tOp EXCEPT ![c] = "findModels"]
  /\ tArg' = [tArg EXCEPT ![c] = term]
  /\ tAfter' = [tAfter EXCEPT ![c] = firstDone[term].kind # "none"]
  /\ tLogin' = [tLogin EXCEPT ![c] = "none"]
  /\ StartSearch(c, "findModels", term, NoSent)
  /\ UNCHANGED <<username, password, loggedIn, lastError, clientSession,
                 loginLog, firstDone>>
  /\ UNCHANGED <<provVars, nonTtsVars, nonModelVars>>

\* getModel(modelToken)
CallGetModel(c, token) ==
  LET hit == CacheGet(modelCache, token)
  IN /\ tPc[c] \in {"idle", "returned"}
     /\ tOp' = [tOp EXCEPT ![c] = "getModel"]
     /\ tArg' = [tArg EXCEPT ![c] = token]
     /\ tAfter' = [tAfter EXCEPT ![c] = FALSE]
     /\ tLogin' = [tLogin EXCEPT ![c] = "none"]
     /\ IF TruthyV(hit)
        THEN /\ tResult' = [tResult EXCEPT ![c] = hit]
             /\ tPc' = [tPc EXCEPT ![c] = "returned"]
             /\ tSent' = [tSent EXCEPT ![c] = NoSent]
             /\ UNCHANGED <<modelCache, searchLog>>
        ELSE StartSearch(c, "getModel", token, NoSent)
     /\ UNCHANGED <<username, password, loggedIn, lastError, clientSession,
                    loginLog, firstDone>>
     /\ UNCHANGED <<provVars, nonTtsVars, nonModelVars>>

\* findModelByName(name): logs in first when not logged in and credentials
\* were configured.
CallFindModelByName(c, name) ==
  /\ tPc[c] \in {"idle", "returned"}
  /\ tOp' = [tOp EXCEPT ![c] = "findModelByName"]
  /\ tArg' = [tArg EXCEPT ![c] = name]
  /\ tAfter' = [tAfter EXCEPT ![c] = FALSE]
  /\ tLogin' = [tLogin EXCEPT ![c] = "none"]
  /\ IF ~loggedIn /\ Truthy(username) /\ Truthy(password)
     THEN /\ tPc' = [tPc EXCEPT ![c] = "awaitLogin"]
          /\ loginLog' = loginLog \cup {"findModelByName"}
          /\ tSent' = [tSent EXCEPT ![c] = [fetches |-> 0, logins |-> 1]]
          /\ tResult' = [tResult EXCEPT ![c] = Undefined]
          /\ UNCHANGED <<modelCache, searchLog>>
     ELSE /\ StartSearch(c, "findModelByName", name, NoSent)
          /\ UNCHANGED loginLog
  /\ UNCHANGED <<username, password, loggedIn, lastError, clientSession,
                 firstDone>>
  /\ UNCHANGED <<provVars, nonTtsVars, nonModelVars>>
\* The message of the error client.login throws.
LoginMessage(outcome) ==
  IF outcome = "rejected" THEN "Invalid credentials" ELSE "No session cookie"
\* new Error(`FakeYou login failed: ${err.message}`)
LoginFailed(message) == ErrorVal("FakeYou login failed: " \o message)

\* login that records a failure but leaves this.loggedIn as it was.
LoginEndKeepsFlag(outcome) ==
  IF outcome = "ok"
  THEN [loggedIn |-> TRUE, lastError |-> JsNull, session |-> "session",
        result |-> TrueVal]
  ELSE [loggedIn |-> loggedIn, lastError |-> LoginMessage(outcome),
        session |-> clientSession,
        result |-> LoginFailed(LoginMessage(outcome))]

\* login, from the end of client.login to its return or throw. The client
\* holds a session once client.login has succeeded and keeps the one it had
\* when it throws.
LoginEnd(outcome) ==
  IF outcome = "ok"
  THEN [loggedIn |-> TRUE, lastError |-> JsNull, session |-> "session",
        result |-> TrueVal]
  ELSE [loggedIn |-> FALSE, lastError |-> LoginMessage(outcome),
        session |-> clientSession,
        result |-> LoginFailed(LoginMessage(outcome))]

\* login(username, password)
CallLogin(c, a) ==
  LET user == OrElse(a.username, username)
      pass == OrElse(a.password, password)
  IN /\ tPc[c] \in {"idle", "returned"}
     /\ tOp' = [tOp EXCEPT ![c] = "login"]
     /\ tArg' = [tArg EXCEPT ![c] = Absent]
     /\ tAfter' = [tAfter EXCEPT ![c] = FALSE]
     /\ tLogin' = [tLogin EXCEPT ![c] = "none"]
     /\ IF ~Truthy(user) \/ ~Truthy(pass)
        THEN /\ tResult' = [tResult EXCEPT ![c] =
                              ErrorVal("No credentials provided for login")]
             /\ tPc' = [tPc EXCEPT ![c] = "returned"]
             /\ tSent' = [tSent EXCEPT ![c] = NoSent]
             /\ UNCHANGED loginLog
        ELSE /\ tResult' = [tResult EXCEPT ![c] = Undefined]
             /\ tPc' = [tPc EXCEPT ![c] = "awaitLogin"]
             /\ tSent' = [tSent EXCEPT ![c] = [fetches |-> 0, logins |-> 1]]
             /\ loginLog' = loginLog \cup {"login"}
     /\ UNCHANGED <<username, password, loggedIn, lastError, clientSession,
                    modelCache, searchLog, firstDone>>
     /\ UNCHANGED <<provVars, nonTtsVars, nonModelVars>>

\* client.login settles. A login of findModelByName goes on to the search,
\* or its error lands in findModelByName's catch, which returns null; the
\* constructor's login has its error logged.
LoginSettle(c) ==
  /\ tPc[c] = "awaitLogin"
  /\ \E outcome \in LoginOutcomes :
       LET e == LoginEnd(outcome)
       IN /\ loggedIn' = e.loggedIn
          /\ lastError' = e.lastError
          /\ clientSession' = e.session
          /\ tLogin' = [tLogin EXCEPT ![c] =
                          IF outcome = "ok" THEN "ok" ELSE "failed"]
          /\ IF tOp[c] = "findModelByName" /\ outcome = "ok"
             THEN StartSearch(c, "findModelByName", tArg[c], tSent[c])
             ELSE /\ tResult' = [tResult EXCEPT ![c] =
                                   IF tOp[c] = "findModelByName" THEN NullVal
                                   ELSE e.result]
                  /\ tPc' = [tPc EXCEPT ![c] = "returned"]
                  /\ UNCHANGED <<modelCache, searchLog, tSent>>
  /\ UNCHANGED <<username, password, tOp, tArg, tAfter, loginLog, firstDone>>
  /\ UNCHANGED <<provVars, nonTtsVars, nonModelVars>>

\* client.fetchTtsModels settles and the method runs to its return.
FetchSettle(c) ==
  /\ tPc[c] = "awaitFetch"
  /\ \E o \in SearchOutcomes :
       LET term == TermOf(tOp[c], tArg[c])
           e1 == FindModelsEnd(term, o)
           e2 == Finish(tOp[c], tArg[c], e1.cache, e1.models)
       IN /\ modelCache' = e2.cache
          /\ tResult' = [tResult EXCEPT ![c] = e2.result]
          /\ firstDone' = IF o.kind = "ok" /\ firstDone[term].kind = "none"
                          THEN [firstDone EXCEPT ![term] = e1.models]
                          ELSE firstDone
  /\ tPc' = [tPc EXCEPT ![c] = "returned"]
  /\ UNCHANGED <<username, password, loggedIn, lastError, clientSession, tOp,
                 tArg, tSent, tAfter, tLogin, searchLog, loginLog>>
  /\ UNCHANGED <<provVars, nonTtsVars, nonModelVars>>
\* ------------------------------------------------------------- generateTTS
\* retries: opts.retries || 3
DefaultRetries == 3
\* opts.retries when the options do not set it: undefined, falsy as 0 is.
NotGiven == -1
OptionsRetries ==
  IF optRetries \in {NotGiven, 0} THEN DefaultRetries ELSE optRetries

GenModels == {JsNull, "model"}
GenTexts == {Absent, <<>>, <<" ">>, <<"hi">>}
\* How model.infer ends: a result, or an error.
InferErrors == {"auth", "network"}
InferMessage(k) ==
  IF k = "auth" THEN "Unauthorized" ELSE "Network Error"

\* What generateTTS returns or throws: the inference result, a validation
\* error, or the error after the last attempt with the count its message
\* states and the message of the error it wraps.
GenResult(kind, attempts, message) ==
  [kind |-> kind, attempts |-> attempts, message |-> message]
NoGenResult == GenResult("none", 0, JsNull)

\* generateTTS(model, text) up to its first await.
CallGenerate(m, t) ==
  /\ gPc = "idle"
  /\ gModel' = m
  /\ gText' = t
  /\ IF ~Truthy(m)
     THEN /\ gResult' = GenResult("invalid", 0,
                                  "No model provided for TTS generation")
          /\ gPc' = "returned"
          /\ UNCHANGED <<retries, gAttempts>>
     ELSE IF ~TruthyS(t) \/ trim(t) = <<>>
     THEN /\ gResult' = GenResult("invalid", 0,
                                  "No text provided for TTS generation")
          /\ gPc' = "returned"
          /\ UNCHANGED <<retries, gAttempts>>
     ELSE /\ retries' = OptionsRetries
          /\ gAttempts' = gAttempts + 1
          /\ gPc' = "awaitInfer"
          /\ UNCHANGED gResult
  /\ UNCHANGED <<optRetries, gErr, gAuthAt>>
  /\ UNCHANGED <<provVars, nonTtsVars, nonGenVars>>

\* model.infer settles: the result is returned, or the catch counts the
\* attempt and either throws or starts the delay.
InferSettle ==
  /\ gPc = "awaitInfer"
  /\ \/ /\ gResult' = GenResult("result", 0, JsNull)
        /\ gPc' = "returned"
        /\ UNCHANGED <<retries, gErr, gAuthAt>>
     \/ \E k \in InferErrors :
          /\ retries' = retries - 1
          /\ gErr' = InferMessage(k)
          /\ gAuthAt' = IF k = "auth" /\ gAuthAt = 0 THEN gAttempts ELSE gAuthAt
          /\ IF retries - 1 < 0
             THEN /\ gResult' = GenResult("failed", OptionsRetries,
                                          InferMessage(k))
                  /\ gPc' = "returned"
             ELSE /\ gPc' = "sleeping"
                  /\ UNCHANGED gResult
  /\ UNCHANGED <<optRetries, gModel, gText, gAttempts>>
  /\ UNCHANGED <<provVars, nonTtsVars, nonGenVars>>

\* The retry delay has passed: while (retries >= 0) makes the next attempt.
RetryInfer ==
  /\ gPc = "sleeping"
  /\ retries >= 0
  /\ gAttempts' = gAttempts + 1
  /\ gPc' = "awaitInfer"
  /\ UNCHANGED <<optRetries, gModel, gText, retries, gResult, gErr, gAuthAt>>
  /\ UNCHANGED <<provVars, nonTtsVars, nonGenVars>>
\* ------------------------------------------------------------- specifications
InitBase ==
  /\ provJobs = <<>>
  /\ uuidNext = 1
  /\ sessionCookie = JsNull
  /\ pc = [f \in Flows |-> "start"]
  /\ flowJob = [f \in Flows |-> JsNull]
  /\ flowKey = [f \in Flows |-> 0]
  /\ isComplete = [f \in Flows |-> FALSE]
  /\ sentLog = {}
  /\ nQueries = [f \in Flows |-> 0]
  /\ nSubmits = [f \in Flows |-> 0]
  /\ consecErr = [f \in Flows |-> 0]
  /\ lastErr = [f \in Flows |-> JsNull]
  /\ termSeen = [f \in Flows |-> FALSE]
  /\ lastStatus = [f \in Flows |-> JsNull]
  /\ fnPc = [c \in FnCallers |-> "idle"]
  /\ fnOp = [c \in FnCallers |-> "none"]
  /\ fnData = [c \in FnCallers |-> NoData]
  /\ fnKey = [c \in FnCallers |-> 0]
  /\ fnResp = [c \in FnCallers |-> NoResp]
  /\ fnResult = [c \in FnCallers |-> NoResult]
  /\ fnReq = [c \in FnCallers |-> JsNull]
  /\ fnSent = [c \in FnCallers |-> [submits |-> 0, queries |-> 0]]
  /\ fnLog = {}
  /\ reqNext = 1
  /\ urlCalled = FALSE
  /\ urlOut = Absent
  /\ matchCalled = FALSE
  /\ matchOut = NullModel
  /\ loggedIn = FALSE
  /\ lastError = JsNull
  /\ clientSession = JsNull
  /\ modelCache = [k \in CacheKeys |-> Undefined]
  /\ tOp = [s \in Slots |-> IF s = "ctor" THEN "constructor" ELSE "none"]
  /\ tArg = [s \in Slots |-> Absent]
  /\ tResult = [s \in Slots |-> Undefined]
  /\ tAfter = [s \in Slots |-> FALSE]
  /\ tLogin = [s \in Slots |-> "none"]
  /\ searchLog = {}
  /\ firstDone = [t \in Terms |-> Undefined]
  /\ gPc = "idle"
  /\ gModel = JsNull
  /\ gText = Absent
  /\ retries = 0
  /\ gResult = NoGenResult
  /\ gAttempts = 0
  /\ gErr = JsNull
  /\ gAuthAt = 0

\* The functions are not configured.
InitNoFn ==
  /\ fnEnvToken = JsNull
  /\ fnCfgToken = JsNull
\* No search for a model by name is under way.
InitNoMatch ==
  /\ matchModels = <<>>
  /\ matchName = <<>>
\* new FakeYouTTS() without credentials or options: the constructor starts
\* no login.
InitNoCreds ==
  /\ optRetries = NotGiven
  /\ username = JsNull
  /\ password = JsNull
  /\ tPc = [s \in Slots |-> "idle"]
  /\ tSent = [s \in Slots |-> NoSent]
  /\ loginLog = {}

\* The scripts read no function configuration and hold no inference result.
Init ==
  /\ InitBase
  /\ InitNoFn
  /\ urlIn = NoInference
  /\ InitNoMatch
  /\ InitNoCreds
\* The functions run with any deployment of the token: the environment, the
\* Firebase config, both or neither.
InitFn ==
  /\ InitBase
  /\ fnEnvToken \in {JsNull, "env_token"}
  /\ fnCfgToken \in {JsNull, "cfg_token"}
  /\ urlIn = NoInference
  /\ InitNoMatch
  /\ InitNoCreds
\* getAudioUrl is given any inference result within the bounds.
InitUrl ==
  /\ InitBase
  /\ InitNoFn
  /\ urlIn \in Inferences
  /\ InitNoMatch
  /\ InitNoCreds
\* findModelByName has found any list of models within the bounds, for any
\* name.
InitMatch ==
  /\ InitBase
  /\ InitNoFn
  /\ urlIn = NoInference
  /\ matchModels \in ModelLists(MaxModels)
  /\ matchName \in Names
  /\ InitNoCreds
\* new FakeYouTTS(opts), with or without a username and a password: with
\* both, the constructor has started a login it does not await.
InitTts ==
  /\ InitBase
  /\ InitNoFn
  /\ urlIn = NoInference
  /\ InitNoMatch
  /\ optRetries = NotGiven
  /\ \E given \in BOOLEAN :
       /\ username = IF given THEN "user" ELSE JsNull
       /\ password = IF given THEN "pass" ELSE JsNull
  /\ LET auto == Truthy(username) /\ Truthy(password)
     IN /\ tPc = [s \in Slots |->
                    IF s = "ctor" /\ auto THEN "awaitLogin" ELSE "idle"]
        /\ tSent = [s \in Slots |->
                      IF s = "ctor" /\ auto
                      THEN [fetches |-> 0, logins |-> 1] ELSE NoSent]
        /\ loginLog = IF auto THEN {"constructor"} ELSE {}

vars == <<provVars, flowVars, fnVars, urlVars, ttsVars>>

Provider ==
  \E j \in 1..Len(provJobs) : ProviderStep(j) /\ UNCHANGED clientVars

\* src/test.js: one run of testConvertTextToSpeech against the provider.
NextPoll ==
  \/ \E f \in TokenFlows : FlowStart(f)
  \/ \E f \in TokenFlows : SubmitRecv(f)
  \/ \E f \in TokenFlows : GetRecv(f)
  \/ \E f \in TokenFlows : Wake(f)
  \/ Provider
SpecPoll == Init /\ [][NextPoll]_vars
\* The same run with every request answered or failing in the end and every
\* timer firing: an awaited promise settles, a sleep ends.
SpecPollFair ==
  /\ SpecPoll
  /\ \A f \in TokenFlows :
       /\ WF_vars(FlowStart(f))
       /\ WF_vars(SubmitRecv(f))
       /\ WF_vars(GetRecv(f))
       /\ WF_vars(Wake(f))

\* src/README.md: two runs of the cookie flow interleaved in one process.
NextCookie ==
  \/ \E f \in CookieFlows : FlowStart(f)
  \/ \E f \in CookieFlows : LoginRecv(f)
  \/ \E f \in CookieFlows : SubmitRecv(f)
  \/ \E f \in CookieFlows : GetRecv(f)
  \/ \E f \in CookieFlows : Wake(f)
  \/ Provider
SpecCookie == Init /\ [][NextCookie]_vars

\* src/unnamed/part_000: two clients invoking the callable functions.
NextFn ==
  \/ \E c \in FnCallers : CallConvert(c)
  \/ \E c \in FnCallers : RetryConvert(c)
  \/ \E c \in FnCallers : ConvertRecv(c)
  \/ \E c \in FnCallers : CallCheck(c)
  \/ \E c \in FnCallers : CheckRecv(c)
  \/ Provider
SpecFn == InitFn /\ [][NextFn]_vars

\* src/index.js: getAudioUrl applied to every inference result within bounds.
NextUrl == GetAudioUrlCall
SpecUrl == InitUrl /\ [][NextUrl]_vars

\* src/index.js: one caller using an instance's login and model lookups
\* one call after another, beside the constructor's login.
NextModels ==
  \/ \E t \in Terms : CallFindModels("p", t)
  \/ \E t \in TokenArgs : CallGetModel("p", t)
  \/ \E n \in NameArgs : CallFindModelByName("p", n)
  \/ \E a \in LoginArgs : CallLogin("p", a)
  \/ \E c \in {"p", "ctor"} : LoginSettle(c)
  \/ FetchSettle("p")
SpecModels == InitTts /\ [][NextModels]_vars

\* src/index.js: two callers searching through one instance at once.
NextRace ==
  \/ \E c \in TtsCallers, t \in RaceTerms : CallFindModels(c, t)
  \/ \E c \in TtsCallers : FetchSettle(c)
SpecRace == Init /\ [][NextRace]_vars

\* new FakeYouTTS({retries}) with any retries option within the bound.
InitGen ==
  /\ InitBase
  /\ InitNoFn
  /\ urlIn = NoInference
  /\ InitNoMatch
  /\ username = JsNull
  /\ password = JsNull
  /\ tPc = [s \in Slots |-> "idle"]
  /\ tSent = [s \in Slots |-> NoSent]
  /\ loginLog = {}
  /\ optRetries \in {NotGiven} \cup 0..MaxRetries

\* src/index.js: one generateTTS call, for every model, text and option.
NextGen ==
  \/ \E m \in GenModels, t \in GenTexts : CallGenerate(m, t)
  \/ InferSettle
  \/ RetryInfer
SpecGen == InitGen /\ [][NextGen]_vars

\* The programs of the repository are run one at a time: a program takes
\* its steps while the others have not started and hold no configuration.
PollIdle == \A f \in TokenFlows : pc[f] = "start"
CookieIdle == \A f \in CookieFlows : pc[f] = "start"
FnIdle ==
  /\ \A c \in FnCallers : fnOp[c] = "none"
  /\ fnEnvToken = JsNull
  /\ fnCfgToken = JsNull
ModelsIdle ==
  /\ \A c \in TtsCallers : tOp[c] = "none"
  /\ username = JsNull
  /\ password = JsNull
GenIdle == gPc = "idle" /\ optRetries = NotGiven

\* Everything that submits to the provider or queries it: the test script,
\* the README script, or the callable functions.
InitCred == Init \/ InitFn
NextCred ==
  \/ CookieIdle /\ FnIdle /\ NextPoll
  \/ PollIdle /\ FnIdle /\ NextCookie
  \/ PollIdle /\ CookieIdle /\ NextFn
SpecCred == InitCred /\ [][NextCred]_vars

\* Everything that can hold a session: a FakeYouTTS instance used for its
\* logins and model lookups or for a generation, the README script, or the
\* test script.
InitAny == Init \/ InitTts \/ InitGen
NextAny ==
  \/ CookieIdle /\ ModelsIdle /\ GenIdle /\ NextPoll
  \/ PollIdle /\ ModelsIdle /\ GenIdle /\ NextCookie
  \/ PollIdle /\ CookieIdle /\ GenIdle /\ NextModels
  \/ PollIdle /\ CookieIdle /\ ModelsIdle /\ NextGen
SpecAny == InitAny /\ [][NextAny]_vars

\* src/index.js: findModelByName's choice, for every list of models found.
NextMatch == FindModelByNameChoose
SpecMatch == InitMatch /\ [][NextMatch]_vars

\* ------------------------------------------------------------- claims
\* C1 (as stated): once a status response reporting complete_success or
\* failed has been received, the poller issues no further status query and
\* no submission for that job.
C1_NoQueryAfterTerminal ==
  [][\A f \in Watched :
       termSeen[f] => /\ nQueries'[f] = nQueries[f]
                      /\ nSubmits'[f] = nSubmits[f]]_vars

\* C2 (as stated): whatever the provider does, the poller issues at most
\* max_attempts status queries.
C2_PollingBounded == \A f \in Watched : nQueries[f] <= MaxAttempts

\* C3 (as stated): after N consecutive identical errors of the status query
\* (an authentication failure that persists), the poller has stopped.
C3_PersistentErrorSurfaces ==
  \A f \in Watched :
    (lastErr[f] = "auth" /\ consecErr[f] >= EscalateAfter) => pc[f] = "done"

\* C4 (as stated): the submissions sent for one logical request all carry
\* the same idempotency key, so the provider holds at most one job for it.
C4_RetriesShareKey ==
  /\ \A d \in fnLog, e \in fnLog : d.req = e.req => d.key = e.key
  /\ \A i \in 1..Len(provJobs), j \in 1..Len(provJobs) :
       provJobs[i].req = provJobs[j].req => i = j

\* C5 (as stated): with two flows interleaved, every request a flow sends
\* carries the credential that flow's own login obtained and the key drawn
\* for that flow; two flows never share a key.
C5_NoCrossContamination ==
  \A e \in sentLog :
    /\ e.kind # "login" => e.cred = Cred(e.flow, CookieOf(e.flow))
    /\ e.kind = "submit" =>
         \A d \in sentLog : (d.kind = "submit" /\ d.flow # e.flow) => d.key # e.key

\* The call that returned was rejected by the function's own input check.
InvalidInput(c) ==
  \/ fnOp[c] = "convert"
       /\ (~Truthy(fnData[c].text) \/ ~Truthy(fnData[c].modelName))
  \/ fnOp[c] = "check" /\ ~Truthy(fnData[c].inferenceToken)
NothingSent(c) == fnSent[c] = [submits |-> 0, queries |-> 0]

\* C6 (as stated): a call with a missing or empty text, model token or job
\* token fails with the invalid-argument kind and sends nothing.
C6_ValidationKind ==
  \A c \in FnCallers :
    (fnPc[c] = "returned" /\ InvalidInput(c)) =>
      /\ fnResult[c].kind = "error"
      /\ fnResult[c].code = "invalid-argument"
      /\ NothingSent(c)

\* convertTextToSpeech returned after the provider accepted the submission.
Accepted(c) ==
  /\ fnPc[c] = "returned"
  /\ fnOp[c] = "convert"
  /\ fnResp[c].kind = "data"
  /\ fnResp[c].success

\* C7 (as stated): on an accepted submission the job returned holds the
\* provider's inference_job_token and the status pending.
C7_AcceptedIsPending ==
  \A c \in FnCallers :
    Accepted(c) =>
      /\ fnResult[c].kind = "ok"
      /\ fnResult[c].inferenceToken = fnResp[c].token
      /\ fnResult[c].status = "pending"

\* C7 (amended): on an accepted submission the value returned holds the
\* provider's inference_job_token, the token of the job created for this
\* call's key, and the status processing.
C7_AcceptedIsProcessing ==
  \A c \in FnCallers :
    Accepted(c) =>
      /\ fnResult[c].kind = "ok"
      /\ fnResult[c].inferenceToken = fnResp[c].token
      /\ fnResult[c].inferenceToken = TokenOf(JobOfKey(fnKey[c]))
      /\ fnResult[c].status = "processing"
C7_Witness == \E c \in FnCallers : Accepted(c) /\ fnResult[c].kind = "ok"

\* C8 (as stated): when the provider answers the submission with success
\* false, the error thrown carries the message the provider reported.
C8_CarriesProviderMessage ==
  \A c \in FnCallers :
    (fnPc[c] = "returned" /\ fnOp[c] = "convert"
       /\ fnResp[c].kind = "data" /\ ~fnResp[c].success) =>
      /\ fnResult[c].kind = "error"
      /\ fnResult[c].message = fnResp[c].message

\* checkConversionStatus is running or has returned.
Checking(c) == fnOp[c] = "check" /\ fnPc[c] \in {"awaitGet", "returned"}
\* The call got past its input check and found a token to send.
CheckSends(c) == Truthy(fnData[c].inferenceToken) /\ Truthy(AuthToken)

\* C9 (as stated): each checkConversionStatus call issues exactly one status
\* query and no submission.
C9_ExactlyOneQuery ==
  \A c \in FnCallers :
    (fnPc[c] = "returned" /\ fnOp[c] = "check") =>
      fnSent[c] = [submits |-> 0, queries |-> 1]

\* What C9 says of a call's requests and of its return value.
C9_State ==
  \A c \in FnCallers :
    Checking(c) =>
      /\ fnSent[c].submits = 0
      /\ fnSent[c].queries = IF CheckSends(c) THEN 1 ELSE 0
      /\ (fnPc[c] = "returned" /\ fnResp[c].kind = "data" /\ fnResp[c].success) =>
           /\ fnResult[c].kind = "ok"
           /\ fnResult[c].status = fnResp[c].status
           /\ fnResult[c].audioUrl =
                IF Truthy(fnResp[c].path) THEN fnResp[c].path ELSE JsNull
\* A step of a checkConversionStatus call: it starts, or its answer arrives.
C9_CheckStep ==
  \E c \in FnCallers :
    /\ fnOp'[c] = "check"
    /\ \/ fnPc[c] = "awaitGet" /\ fnPc'[c] = "returned"
       \/ fnPc[c] # "awaitGet"
          /\ <<fnPc[c], fnOp[c], fnData[c], fnResult[c]>>
               # <<fnPc'[c], fnOp'[c], fnData'[c], fnResult'[c]>>

\* C9 (amended): a checkConversionStatus call that has a job token and a
\* credential issues exactly one status query, any other call issues none;
\* no call issues a submission or changes a job at the provider; on a
\* success response the call returns the status the provider reported and
\* its audio path, null when the path is missing or empty.
C9_OneQueryNoWrite ==
  /\ []C9_State
  /\ [][C9_CheckStep => provJobs' = provJobs /\ fnLog' = fnLog]_vars
C9_Witness ==
  \E c \in FnCallers :
    /\ fnPc[c] = "returned" /\ fnOp[c] = "check"
    /\ fnResp[c].kind = "data" /\ fnResp[c].success
    /\ fnResp[c].status = "complete_success"
    /\ fnResult[c].audioUrl = "/media/a.wav"
    /\ fnSent[c].queries = 1

\* C10: a present CDN path field gives the CDN origin followed by that
\* path, whatever resourceUrl holds; with neither field present, or no
\* inference at all, the result is null.
C10_CdnPathWins ==
  urlCalled =>
    /\ (~urlIn.isNull /\ TruthyS(urlIn.publicBucketWavAudioPath)) =>
         urlOut = CDN_URL \o urlIn.publicBucketWavAudioPath
    /\ (urlIn.isNull \/ (~TruthyS(urlIn.publicBucketWavAudioPath)
                           /\ ~TruthyS(urlIn.resourceUrl))) =>
         urlOut = Absent
C10_Witness ==
  /\ urlCalled
  /\ ~urlIn.isNull
  /\ TruthyS(urlIn.publicBucketWavAudioPath)
  /\ IncludesStorage(urlIn.resourceUrl)
  /\ MediaMatch(urlIn.resourceUrl) # 0
  /\ urlOut = CDN_URL \o urlIn.publicBucketWavAudioPath
  /\ urlOut # CDN_URL \o SubSeq(urlIn.resourceUrl, MediaMatch(urlIn.resourceUrl),
                                Len(urlIn.resourceUrl))

\* C11 (as stated): given an inference with no CDN path field and a
\* resourceUrl on the old storage domain, getAudioUrl returns the CDN origin
\* followed by the /media/... suffix, and never a URL that still names the
\* storage domain.
C11_LegacyAlwaysRewritten ==
  (/\ urlCalled
   /\ ~urlIn.isNull
   /\ ~TruthyS(urlIn.publicBucketWavAudioPath)
   /\ TruthyS(urlIn.resourceUrl)
   /\ urlIn.resourceUrl[1] = STORAGE) =>
    /\ SubSeq(urlOut, 1, 1) = CDN_URL
    /\ urlOut[2] = "/media/"
    /\ urlOut[1] # STORAGE

\* C12: for a non-empty search result findModelByName returns the first
\* model whose title equals the name without regard to case, even when an
\* earlier model's title merely contains the name; failing that the first
\* model whose title contains the name; failing that the first model. It
\* returns null only for an empty search result.
C12_TieBreak ==
  matchCalled =>
    LET n == toLowerCase(matchName)
        Exact(i) == /\ TruthyS(matchModels[i].title)
                    /\ toLowerCase(matchModels[i].title) = n
        Has(i) == /\ TruthyS(matchModels[i].title)
                  /\ includes(toLowerCase(matchModels[i].title), n)
        idx == 1..Len(matchModels)
    IN /\ (matchOut = NullModel) <=> (Len(matchModels) = 0)
       /\ Len(matchModels) > 0 =>
            \E i \in idx :
              /\ matchOut = matchModels[i]
              /\ IF \E k \in idx : Exact(k)
                 THEN Exact(i) /\ \A k \in 1..(i - 1) : ~Exact(k)
                 ELSE IF \E k \in idx : Has(k)
                 THEN Has(i) /\ \A k \in 1..(i - 1) : ~Has(k)
                 ELSE i = 1
C12_Witness ==
  /\ matchCalled
  /\ Len(matchModels) = 3
  /\ matchName = <<"MARIO">>
  /\ matchModels[1].title = <<"Luigi">>
  /\ matchModels[2].title = <<"Super ", "Mario", " Bros">>
  /\ matchModels[3].title = <<"Mario">>
  /\ matchOut = matchModels[3]

\* C13 (as stated): once a findModels(term) call has completed with the
\* models of a successful remote search, every findModels call with that
\* term begun later returns that same sequence and issues no remote search.
C13_CachedSearchStable ==
  \A c \in TtsCallers :
    (tPc[c] = "returned" /\ tOp[c] = "findModels" /\ tAfter[c]) =>
      /\ tResult[c] = firstDone[tArg[c]]
      /\ tSent[c].fetches = 0

\* C14: the remote search endpoint never receives an empty or blank term:
\* a findModels call with a missing, empty or blank term that reaches the
\* endpoint searches for the default term "a".
C14_NeverBlankQuery ==
  /\ \A t \in searchLog : TruthyS(t) /\ trim(t) # <<>>
  /\ \A c \in TtsCallers :
       (/\ tOp[c] = "findModels"
        /\ tSent[c].fetches > 0
        /\ (~TruthyS(tArg[c]) \/ trim(tArg[c]) = <<>>)) =>
         <<"a">> \in searchLog
C14_Witness ==
  /\ tPc["p"] = "returned"
  /\ tOp["p"] = "findModels"
  /\ tArg["p"] = <<" ">>
  /\ tSent["p"].fetches = 1
  /\ tResult["p"].kind = "list"
  /\ Len(tResult["p"].list) > 0
  /\ searchLog = {<<"a">>}

\* C15 (as stated): getModel(t) returns null or one voice model whose token
\* is t, whatever findModels and getModel calls came before.
C15_GetModelByToken ==
  \A c \in TtsCallers :
    (tPc[c] = "returned" /\ tOp[c] = "getModel") =>
      \/ tResult[c].kind = "null"
      \/ tResult[c].kind = "model" /\ tResult[c].model.token = tArg[c]

\* C16 (as stated): when every inference attempt fails, generateTTS fails
\* with an error that carries the last attempt's error message and a count
\* of attempts equal to the number of inference attempts made.
C16_FailureReportsAttempts ==
  gResult.kind = "failed" =>
    /\ gResult.message = gErr
    /\ gResult.attempts = gAttempts

\* C17 (as stated): a missing model or an empty or blank text fails with no
\* inference attempt made, and once an inference attempt has been rejected
\* for authentication no further attempt is made.
C17_NoRetryOnAuthOrValidation ==
  /\ gResult.kind = "invalid" => gAttempts = 0
  /\ gAuthAt # 0 => gAttempts = gAuthAt

C18_NoRequestWithoutCredential ==
  /\ ~Truthy(AuthToken) =>
       /\ fnLog = {}
       /\ \A c \in FnCallers :
            /\ fnSent[c] = [submits |-> 0, queries |-> 0]
            /\ fnPc[c] = "returned" => fnResult[c].kind = "error"
  /\ \A e \in fnLog : Truthy(e.cred)
  /\ \A e \in sentLog : e.kind \in {"submit", "status"} => Truthy(e.cred)
  /\ \A f \in CookieFlows :
       (pc[f] = "done" /\ ~Truthy(sessionCookie)) => nSubmits[f] = 0
C18_Witness ==
  /\ ~Truthy(AuthToken)
  /\ \E c \in FnCallers :
       /\ fnPc[c] = "returned"
       /\ fnOp[c] = "check"
       /\ Truthy(fnData[c].inferenceToken)
       /\ fnResult[c] =
            Caught(HttpsError("internal",
                              "FakeYou authentication token not configured"))
       /\ fnSent[c].queries = 0

\* C20 (as stated): a remote login is issued only by an explicit login
\* call: neither construction nor any other operation issues one.
C20_OnlyExplicitLogin ==
  /\ loginLog \subseteq {"login"}
  /\ \A e \in sentLog : e.kind # "login"

\* C20 (amended): a remote login is issued only by login itself, by the
\* constructor when a username and a password are configured, by
\* findModelByName when the instance is not logged in and both are
\* configured, and by the README script's testConvertTextToSpeech when it
\* holds no session cookie; findModels, getModel, generateTTS and the
\* scripts' polling issue none.
C20_LoginOnlyWhereCoded ==
  /\ []("constructor" \in loginLog => Truthy(username) /\ Truthy(password))
  /\ [][\A c \in Slots :
          (tPc[c] # "awaitLogin" /\ tPc'[c] = "awaitLogin") =>
            /\ c \in TtsCallers
            /\ \/ tOp'[c] = "login"
               \/ /\ tOp'[c] = "findModelByName"
                  /\ ~loggedIn
                  /\ Truthy(username)
                  /\ Truthy(password)]_vars
  /\ [][loginLog' # loginLog =>
          \E c \in TtsCallers :
            tPc[c] # "awaitLogin" /\ tPc'[c] = "awaitLogin"]_vars
  /\ [][{e \in sentLog' : e.kind = "login"} # {e \in sentLog : e.kind = "login"}
          => \E f \in CookieFlows :
               /\ pc[f] = "start"
               /\ pc'[f] = "awaitLogin"
               /\ ~Truthy(sessionCookie)]_vars
C20_Witness ==
  /\ loginLog = {"constructor", "findModelByName"}
  /\ tLogin["ctor"] = "failed"
  /\ tOp["p"] = "findModelByName"
  /\ tPc["p"] = "awaitLogin"

\* C21 (as stated): for every retries option R >= 0 given to the
\* constructor, R = 0 included, generateTTS makes at most R + 1 inference
\* calls, and once an attempt has succeeded it has returned that result.
C21_AtMostRPlusOneCalls ==
  /\ optRetries >= 0 => gAttempts <= optRetries + 1
  /\ gResult.kind = "result" => gPc = "returned"

\* C22 (as stated): if from some point on every status response the poller
\* receives is a success reporting complete_success or failed, with or
\* without an audio path, then pollUntilComplete eventually ends.
C22_TerminalEndsPolling ==
  \A f \in Watched :
    <>[][(pc[f] = "awaitGet" /\ pc'[f] # "awaitGet") =>
           lastStatus'[f] \in Terminal]_vars
      => <>(pc[f] = "done")

\* C23 (as stated): under any interleaving of findModels calls on one
\* instance, the cache entry of a search term, once written, is never
\* replaced by a different sequence.
C23_CacheEntryNeverReplaced ==
  [][\A t \in Terms :
       modelCache[CacheKey(t)].kind # "none" =>
         modelCache'[CacheKey(t)] = modelCache[CacheKey(t)]]_vars

\* C24 (as stated): in every state where no login is in flight, loggedIn is
\* true whenever the most recently started login succeeded. The
\* constructor's login starts at construction, so a login started by the
\* caller's current call is the most recently started one.
C24_LastStartedLoginWins ==
  \A c \in TtsCallers :
    (/\ \A s \in Slots : tPc[s] # "awaitLogin"
     /\ tSent[c].logins = 1
     /\ tLogin[c] = "ok") => loggedIn

\* C25: a findModels call never throws: it returns a sequence, the empty one
\* when its remote lookup failed, and findModelByName then returns null. A
\* failed lookup caches nothing: a search term has a cache entry only once a
\* lookup of it has succeeded, and only then is a findModels call for it
\* answered without querying the provider.
C25_FailedLookupNotCached ==
  /\ \A c \in TtsCallers :
       (tPc[c] = "returned" /\ tOp[c] = "findModels") =>
         /\ tResult[c].kind = "list"
         /\ tSent[c].fetches = 0 => firstDone[tArg[c]].kind # "none"
         /\ modelCache[CacheKey(tArg[c])].kind = "none" =>
              tResult[c] = ListVal(<<>>) /\ tSent[c].fetches = 1
  /\ \A c \in TtsCallers :
       (/\ tPc[c] = "returned"
        /\ tOp[c] = "findModelByName"
        /\ modelCache[CacheKey(tArg[c])].kind = "none") => tResult[c] = NullVal
  /\ \A t \in Terms :
       modelCache[CacheKey(t)].kind # "none" => firstDone[t].kind # "none"
C25_Witness ==
  /\ tPc["p"] = "returned"
  /\ tOp["p"] = "findModels"
  /\ tArg["p"] = <<"a">>
  /\ tSent["p"].fetches = 1
  /\ tResult["p"] = ListVal(<<>>)
  /\ modelCache[CacheKey(<<"a">>)].kind = "none"
  /\ firstDone[<<"a">>].kind = "none"
  /\ <<"a">> \in searchLog
====
